---- MODULE Spec2Model ----
(***************************************************************************)
(* A model of the medical-agent repository: the billing calculator         *)
(* and the paid analysis (medical_mcp_server.py,                           *)
(* medical_mcp_server_fixed.py), the prompt                                *)
(* server's JSON-RPC loop (prompt_server_mcp.py) and the billed analysis   *)
(* wrappers (medical_agent.py, medical_agent_enhanced.py).                 *)
(***************************************************************************)
EXTENDS Integers, Sequences, FiniteSets, TLC

VARIABLES
    bill,       \* medical_mcp_server tools: the last call and the dict it returned
    stdin,      \* prompt server: the lines of sys.stdin not yet read
    line,       \* prompt server: main()'s local `line`
    request,    \* prompt server: main()'s local `request` (Unbound until first bound)
    stdout,     \* prompt server: the JSON values printed so far
    served,     \* prompt server: the lines read so far, each with what main() did
    mpc,        \* prompt server: position of main(): "read", "handle", "eof", "raised"
    prompts,    \* prompt server: PromptServer.prompts, loaded once by __init__
    run,        \* analyze_with_billing: one run of one variant
    api         \* HTTP layer: analysis_jobs, queued background tasks, responses and answers sent

vars == <<bill, stdin, line, request, stdout, served, mpc, prompts, run, api>>

------------------------------------------------------------------------------
(* Binary floating point.  Python floats are IEEE-754 doubles; a double is  *)
(* modelled exactly as s * m * 2^e with m a natural number of at most 53    *)
(* bits, held as a sequence of 14-bit limbs, least significant first.       *)

Limb == 2^14

Max(a, b) == IF a >= b THEN a ELSE b
Min(a, b) == IF a <= b THEN a ELSE b
Abs(n) == IF n < 0 THEN -n ELSE n

LimbAt(a, i) == IF i \in 1..Len(a) THEN a[i] ELSE 0

RECURSIVE Strip(_)
Strip(a) ==
    IF a # <<>> /\ a[Len(a)] = 0 THEN Strip(SubSeq(a, 1, Len(a) - 1)) ELSE a

RECURSIVE Carry(_, _)
Carry(cols, c) ==
    IF cols = <<>>
    THEN IF c = 0 THEN <<>> ELSE <<c % Limb>> \o Carry(<<>>, c \div Limb)
    ELSE LET t == Head(cols) + c
         IN  <<t % Limb>> \o Carry(Tail(cols), t \div Limb)

RECURSIVE Borrow(_, _)
Borrow(cols, b) ==
    IF cols = <<>> THEN <<>>
    ELSE LET t == Head(cols) - b
         IN  IF t < 0 THEN <<t + Limb>> \o Borrow(Tail(cols), 1)
                      ELSE <<t>> \o Borrow(Tail(cols), 0)

AddBig(a, b) ==
    Strip(Carry([k \in 1..Max(Len(a), Len(b)) |-> LimbAt(a, k) + LimbAt(b, k)], 0))

\* a - b for a >= b
SubBig(a, b) ==
    Strip(Borrow([k \in 1..Max(Len(a), Len(b)) |-> LimbAt(a, k) - LimbAt(b, k)], 0))

RECURSIVE ColSum(_, _, _, _)
ColSum(a, b, k, i) ==
    IF i > Len(a) THEN 0
    ELSE (IF (k - i + 1) \in 1..Len(b) THEN a[i] * b[k - i + 1] ELSE 0)
         + ColSum(a, b, k, i + 1)

MulBig(a, b) ==
    IF a = <<>> \/ b = <<>> THEN <<>>
    ELSE Strip(Carry([k \in 1..(Len(a) + Len(b) - 1) |-> ColSum(a, b, k, 1)], 0))

RECURSIVE CmpFrom(_, _, _)
CmpFrom(a, b, i) ==
    IF i = 0 THEN 0
    ELSE IF LimbAt(a, i) > LimbAt(b, i) THEN 1
    ELSE IF LimbAt(a, i) < LimbAt(b, i) THEN -1
    ELSE CmpFrom(a, b, i - 1)

\* -1, 0, 1 as a < b, a = b, a > b
CmpBig(a, b) == CmpFrom(a, b, Max(Len(a), Len(b)))

BitLen(a) ==
    LET n == Strip(a)
    IN  IF n = <<>> THEN 0
        ELSE 14 * (Len(n) - 1)
             + (CHOOSE k \in 1..14 : 2^(k-1) <= n[Len(n)] /\ n[Len(n)] < 2^k)

ShiftLeft(a, k) ==
    IF Strip(a) = <<>> THEN <<>>
    ELSE [i \in 1..(k \div 14) |-> 0] \o MulBig(Strip(a), <<2^(k % 14)>>)

IsOdd(a) == a # <<>> /\ a[1] % 2 = 1

\* a / 2^k rounded to the nearest integer, ties to even (k >= 1)
RoundShift(a, k) ==
    LET d    == (k + 13) \div 14
        a2   == ShiftLeft(a, 14 * d - k)
        drop == [i \in 1..d |-> LimbAt(a2, i)]
        q    == Strip(SubSeq(a2, d + 1, Len(a2)))
        low0 == \A i \in 1..(d - 1) : drop[i] = 0
        half == 2^13
        up   == \/ drop[d] > half
                \/ drop[d] = half /\ ~low0
                \/ drop[d] = half /\ low0 /\ IsOdd(q)
    IN  IF up THEN AddBig(q, <<1>>) ELSE q

RECURSIVE ToInt(_)
ToInt(a) == IF a = <<>> THEN 0 ELSE Head(a) + Limb * ToInt(Tail(a))

FromInt(n) == Strip(<<n % Limb, n \div Limb>>)

Dbl(s, m, e) == [s |-> IF Strip(m) = <<>> THEN 1 ELSE s, m |-> Strip(m), e |-> e]

\* round-to-nearest-even to a 53-bit significand
RoundToDouble(s, m, e) ==
    LET L == BitLen(m)
    IN  IF L <= 53 THEN Dbl(s, m, e)
        ELSE Dbl(s, RoundShift(m, L - 53), e + (L - 53))

\* the limbs of floor(r * Limb^k / den) for r < den, and the remainder
RECURSIVE LongDiv(_, _, _)
LongDiv(r, den, k) ==
    IF k = 0 THEN <<<<>>, r>>
    ELSE LET t    == r * Limb
             rest == LongDiv(t % den, den, k - 1)
         IN  <<rest[1] \o <<t \div den>>, rest[2]>>

\* the double a decimal literal num/den denotes (correctly rounded): 70
\* fraction bits of the quotient, then a sticky bit for the remainder
DecToDouble(num, den) ==
    LET qr == LongDiv(num % den, den, 5)
        q  == qr[1] \o <<num \div den>>
        m  == AddBig(MulBig(q, <<2>>), FromInt(IF qr[2] = 0 THEN 0 ELSE 1))
    IN  RoundToDouble(1, m, -71)

IntToDouble(n) == Dbl(IF n < 0 THEN -1 ELSE 1, FromInt(Abs(n)), 0)

FMul(x, y) == RoundToDouble(x.s * y.s, MulBig(x.m, y.m), x.e + y.e)

FNeg(x) == Dbl(-x.s, x.m, x.e)

FAdd(x, y) ==
    IF x.m = <<>> THEN y
    ELSE IF y.m = <<>> THEN x
    ELSE LET e0 == Min(x.e, y.e)
             mx == ShiftLeft(x.m, x.e - e0)
             my == ShiftLeft(y.m, y.e - e0)
             c  == CmpBig(mx, my)
         IN  IF x.s = y.s THEN RoundToDouble(x.s, AddBig(mx, my), e0)
             ELSE IF c = 0 THEN Dbl(1, <<>>, 0)
             ELSE IF c > 0 THEN RoundToDouble(x.s, SubBig(mx, my), e0)
             ELSE RoundToDouble(y.s, SubBig(my, mx), e0)

FSub(x, y) == FAdd(x, FNeg(y))

\* round(x, 2): the nearest multiple of 0.01 to the exact value of x, ties to
\* even, given as a whole number of hundredths
Round2(x) ==
    LET h == MulBig(x.m, <<100>>)
    IN  x.s * ToInt(IF x.e >= 0 THEN ShiftLeft(h, x.e) ELSE RoundShift(h, -x.e))

------------------------------------------------------------------------------
(* The billing calculator.                                                  *)

TierNames == {"basic", "comprehensive", "batch"}

BILLING_TIERS ==
    [basic         |-> [price |-> DecToDouble(10, 100)],
     comprehensive |-> [price |-> DecToDouble(50, 100)],
     batch         |-> [price |-> DecToDouble(5, 100)]]

\* the threshold taken as "10 or more"
volume_discount_rate_AtTen(analysis_type, document_count) ==
    IF analysis_type = "batch" /\ document_count >= 10
    THEN DecToDouble(1, 10)
    ELSE DecToDouble(0, 10)

\* discount = 0.1 if analysis_type == "batch" and document_count > 10 else 0.0
volume_discount_rate(analysis_type, document_count) ==
    IF analysis_type = "batch" /\ document_count > 10
    THEN DecToDouble(1, 10)
    ELSE DecToDouble(0, 10)

\* a slip in the table: "enterprise": 1.5
customer_discount_rate_Slip(customer_tier) ==
    CASE customer_tier = "standard"   -> DecToDouble(0, 10)
      [] customer_tier = "premium"    -> DecToDouble(5, 100)
      [] customer_tier = "enterprise" -> DecToDouble(15, 10)
      [] OTHER                        -> DecToDouble(0, 10)

\* customer_discounts.get(customer_tier, 0.0)
customer_discount_rate(customer_tier) ==
    CASE customer_tier = "standard"   -> DecToDouble(0, 10)
      [] customer_tier = "premium"    -> DecToDouble(5, 100)
      [] customer_tier = "enterprise" -> DecToDouble(15, 100)
      [] OTHER                        -> DecToDouble(0, 10)

billing_subtotal(base_price, document_count) ==
    FMul(base_price, IntToDouble(document_count))

\* the discounts compounded: the customer discount taken on what the volume
\* discount leaves
billing_total_discount_Compounded(discount, customer_discount, subtotal) ==
    FAdd(FMul(discount, subtotal),
         FMul(customer_discount, FSub(subtotal, FMul(discount, subtotal))))

\* total_discount = (discount + customer_discount) * subtotal
billing_total_discount(discount, customer_discount, subtotal) ==
    FMul(FAdd(discount, customer_discount), subtotal)

\* the operands of the subtraction exchanged
billing_final_total_Exchanged(subtotal, total_discount) == FSub(total_discount, subtotal)

\* final_total = subtotal - total_discount
billing_final_total(subtotal, total_discount) == FSub(subtotal, total_discount)

\* an unknown tier priced as "basic", as BILLING_TIERS.get(t, BILLING_TIERS["basic"])
\* would
calculate_billing_TierFallback(analysis_type, document_count, customer_tier) ==
    LET known             == IF analysis_type \in TierNames THEN analysis_type ELSE "basic"
        base_price        == BILLING_TIERS[known].price
        discount          == volume_discount_rate(known, document_count)
        customer_discount == customer_discount_rate(customer_tier)
        subtotal          == billing_subtotal(base_price, document_count)
        total_discount    == billing_total_discount(discount, customer_discount, subtotal)
        final_total       == billing_final_total(subtotal, total_discount)
    IN  [analysis_type          |-> analysis_type,
         document_count         |-> document_count,
         subtotal               |-> Round2(subtotal),
         volume_discount        |-> Round2(FMul(discount, subtotal)),
         customer_tier_discount |-> Round2(FMul(customer_discount, subtotal)),
         total_discount         |-> Round2(total_discount),
         final_total            |-> Round2(final_total),
         currency               |-> "USD"]

\* medical_mcp_server.py; money fields are round(x, 2), held in hundredths
calculate_billing(analysis_type, document_count, customer_tier) ==
    IF analysis_type \notin TierNames
    THEN [error |-> "Invalid analysis type"]
    ELSE LET base_price        == BILLING_TIERS[analysis_type].price
             discount          == volume_discount_rate(analysis_type, document_count)
             customer_discount == customer_discount_rate(customer_tier)
             subtotal          == billing_subtotal(base_price, document_count)
             total_discount    == billing_total_discount(discount, customer_discount, subtotal)
             final_total       == billing_final_total(subtotal, total_discount)
         IN  [analysis_type          |-> analysis_type,
              document_count         |-> document_count,
              subtotal               |-> Round2(subtotal),
              volume_discount        |-> Round2(FMul(discount, subtotal)),
              customer_tier_discount |-> Round2(FMul(customer_discount, subtotal)),
              total_discount         |-> Round2(total_discount),
              final_total            |-> Round2(final_total),
              currency               |-> "USD"]

\* medical_mcp_server_fixed.py: the same computation, without the two
\* per-source discount fields
calculate_billing_fixed(analysis_type, document_count, customer_tier) ==
    IF analysis_type \notin TierNames
    THEN [error |-> "Invalid analysis type"]
    ELSE LET base_price        == BILLING_TIERS[analysis_type].price
             discount          == volume_discount_rate(analysis_type, document_count)
             customer_discount == customer_discount_rate(customer_tier)
             subtotal          == billing_subtotal(base_price, document_count)
             total_discount    == billing_total_discount(discount, customer_discount, subtotal)
             final_total       == billing_final_total(subtotal, total_discount)
         IN  [analysis_type  |-> analysis_type,
              document_count |-> document_count,
              subtotal       |-> Round2(subtotal),
              total_discount |-> Round2(total_discount),
              final_total    |-> Round2(final_total),
              currency       |-> "USD"]

------------------------------------------------------------------------------
(* JSON values, Python dicts and exceptions.                                *)

Null      == [t |-> "null"]
Num(n)    == [t |-> "num", n |-> n]
Str(s)    == [t |-> "str", s |-> s]
Fmt(s, v) == [t |-> "str", s |-> s, arg |-> v]     \* f"{s}{v}"
Text(k)   == [t |-> "str", text |-> k]             \* a string held as tokens
Arr(xs)   == [t |-> "arr", items |-> xs]
Obj(f)    == [t |-> "obj", f |-> f]
ObjInOrder(f, order) == [t |-> "obj", f |-> f, order |-> order]   \* keys as written
NoKeys    == [k \in {} |-> Null]

IsDict(v) == v.t = "obj"

\* d.get(k, default) for a dict d
Get(d, k, default) == IF k \in DOMAIN d.f THEN d.f[k] ELSE default

\* lists and dicts cannot be dict keys
Hashable(v) == v.t \notin {"arr", "obj"}

\* bool(v)
Truthy(v) ==
    CASE v.t = "null" -> FALSE
      [] v.t = "num"  -> v.n # 0
      [] v.t = "str"  -> v # Str("")
      [] v.t = "arr"  -> v.items # <<>>
      [] v.t = "obj"  -> DOMAIN v.f # {}

Return(v)       == [raised |-> FALSE, value |-> v]
Raise(exc, msg) == [raised |-> TRUE, exc |-> exc, msg |-> msg]

------------------------------------------------------------------------------
(* PromptServer: the template store and the guidance catalog.               *)

Lit(w) == [lit |-> w]       \* literal text
Ph(k)  == [ph |-> k]        \* the text {{k}}
Val(v) == [val |-> v]       \* the text str(v)

PromptNames(store) == {store[i].name : i \in 1..Len(store)}

PromptBody(store, name) ==
    store[CHOOSE i \in 1..Len(store) : store[i].name = name].body

\* the text str(value): a value that reads {{k}} is the same text as the
\* placeholder of k
Inserted(value) ==
    CASE value = Str("{{patient}}") -> Ph("patient")
      [] value = Str("{{focus}}")   -> Ph("focus")
      [] OTHER                      -> Val(value)

\* prompt.replace("{{key}}", str(value))
ReplaceKey(body, key, value) ==
    [i \in 1..Len(body) |-> IF body[i] = Ph(key) THEN Inserted(value) ELSE body[i]]

\* for key, value in context.items(): prompt = prompt.replace(...)
RECURSIVE Substitute(_, _, _)
Substitute(body, ctx, keys) ==
    IF keys = {} THEN body
    ELSE LET key == CHOOSE k \in keys : TRUE
         IN  Substitute(ReplaceKey(body, key, ctx[key]), ctx, keys \ {key})

\* the same loop over a context whose keys come in the order of the JSON text
RECURSIVE SubstituteInOrder(_, _, _)
SubstituteInOrder(body, ctx, keys) ==
    IF keys = <<>> THEN body
    ELSE SubstituteInOrder(ReplaceKey(body, Head(keys), ctx[Head(keys)]), ctx, Tail(keys))

get_prompt(store, name, context) ==
    IF ~Hashable(name)
    THEN Raise("TypeError", "unhashable type")
    ELSE IF ~(name.t = "str" /\ DOMAIN name = {"t", "s"} /\ name.s \in PromptNames(store))
    THEN Return(Fmt("No prompt found for: ", name))
    ELSE IF ~Truthy(context)
    THEN Return(Text(PromptBody(store, name.s)))
    ELSE IF ~IsDict(context)
    THEN Raise("AttributeError", "object has no attribute 'items'")
    ELSE IF "order" \in DOMAIN context
    THEN Return(Text(SubstituteInOrder(PromptBody(store, name.s), context.f, context.order)))
    ELSE Return(Text(Substitute(PromptBody(store, name.s), context.f, DOMAIN context.f)))

list_prompts(store) == [i \in 1..Len(store) |-> store[i].name]

GuidanceTasks == {"analyze_file", "patient_summary", "billing", "fetch_guidelines"}

\* the catalog with the first two steps of analyze_file and of billing
\* exchanged
tool_guidance_Reordered ==
    [analyze_file |->
        [required_tools |-> <<"filesystem">>,
         steps |-> <<"Then analyze the content using medical_processor prompt",
                     "First, use filesystem tool to read the medical document",
                     "Do NOT attempt to analyze without reading the file first">>,
         prompt |-> Str("medical_processor")],
     patient_summary |->
        [required_tools |-> <<"filesystem">>,
         steps |-> <<"Use filesystem to access patient records",
                     "Apply patient_summary prompt for formatting",
                     "Ensure HIPAA compliance in output">>,
         prompt |-> Str("patient_summary")],
     billing |->
        [required_tools |-> <<"stripe", "filesystem">>,
         steps |-> <<"Use stripe tool to create billing record",
                     "First verify the analysis was completed",
                     "Do NOT skip billing verification">>,
         prompt |-> Null],
     fetch_guidelines |->
        [required_tools |-> <<"fetch">>,
         steps |-> <<"Use fetch tool to retrieve medical guidelines",
                     "Do NOT make up medical information",
                     "Always cite sources">>,
         prompt |-> Null]]

tool_guidance ==
    [analyze_file |->
        [required_tools |-> <<"filesystem">>,
         steps |-> <<"First, use filesystem tool to read the medical document",
                     "Then analyze the content using medical_processor prompt",
                     "Do NOT attempt to analyze without reading the file first">>,
         prompt |-> Str("medical_processor")],
     patient_summary |->
        [required_tools |-> <<"filesystem">>,
         steps |-> <<"Use filesystem to access patient records",
                     "Apply patient_summary prompt for formatting",
                     "Ensure HIPAA compliance in output">>,
         prompt |-> Str("patient_summary")],
     billing |->
        [required_tools |-> <<"stripe", "filesystem">>,
         steps |-> <<"First verify the analysis was completed",
                     "Use stripe tool to create billing record",
                     "Do NOT skip billing verification">>,
         prompt |-> Null],
     fetch_guidelines |->
        [required_tools |-> <<"fetch">>,
         steps |-> <<"Use fetch tool to retrieve medical guidelines",
                     "Do NOT make up medical information",
                     "Always cite sources">>,
         prompt |-> Null]]

default_guidance ==
    [required_tools |-> <<>>,
     steps |-> <<"No specific guidance available for this task">>,
     prompt |-> Null]

\* the lookup written tool_guidance[task]: KeyError for a task not in the catalog
get_tool_guidance_KeyError(task) ==
    IF ~Hashable(task)
    THEN Raise("TypeError", "unhashable type")
    ELSE IF task.t = "str" /\ DOMAIN task = {"t", "s"} /\ task.s \in GuidanceTasks
    THEN Return(tool_guidance[task.s])
    ELSE Raise("KeyError", "task")

\* tool_guidance.get(task, default)
get_tool_guidance(task) ==
    IF ~Hashable(task)
    THEN Raise("TypeError", "unhashable type")
    ELSE IF task.t = "str" /\ DOMAIN task = {"t", "s"} /\ task.s \in GuidanceTasks
    THEN Return(tool_guidance[task.s])
    ELSE Return(default_guidance)

tools_list ==
    <<[name |-> "filesystem", purpose |-> "Read medical documents and files",
       required_for |-> <<"file analysis", "document reading">>],
      [name |-> "fetch", purpose |-> "Retrieve external medical resources",
       required_for |-> <<"guidelines", "research papers">>],
      [name |-> "stripe", purpose |-> "Handle billing and payment processing",
       required_for |-> <<"billing", "payment tracking">>]>>

------------------------------------------------------------------------------
(* prompt_server_mcp.py: handle_mcp_request and the loop of main().         *)

\* name.replace('_', ' '), for the template names the store can hold
SpacedName(name) ==
    CASE name = "medical_processor" -> "medical processor"
      [] name = "patient_summary"   -> "patient summary"
      [] OTHER                      -> name

AttrError(what) == Raise("AttributeError", what)

\* a message that leaves the method out
UnknownMethodResponse_NoName(method) == [error |-> Str("Unknown method")]

\* return {"error": f"Unknown method: {method}"}
UnknownMethodResponse(method) == [error |-> Fmt("Unknown method: ", method)]

\* the dict handle_mcp_request returns, or the exception it raises
handle_mcp_request(req, store) ==
    IF ~IsDict(req) THEN AttrError("request has no attribute 'get'")
    ELSE
    LET method == Get(req, "method", Str(""))
        params == Get(req, "params", Obj(NoKeys))
    IN  IF method = Str("prompts/list")
        THEN Return([prompts |->
                [i \in 1..Len(store) |->
                    [name |-> list_prompts(store)[i],
                     description |-> Fmt("Prompt for ", Str(SpacedName(store[i].name)))]]])
        ELSE IF method = Str("prompts/get")
        THEN IF ~IsDict(params) THEN AttrError("params has no attribute 'get'")
             ELSE LET got == get_prompt(store, Get(params, "name", Str("")),
                                        Get(params, "context", Obj(NoKeys)))
                  IN  IF got.raised THEN got ELSE Return([prompt |-> got.value])
        ELSE IF method = Str("tools/guidance")
        THEN IF ~IsDict(params) THEN AttrError("params has no attribute 'get'")
             ELSE LET got == get_tool_guidance(Get(params, "task", Str("")))
                  IN  IF got.raised THEN got ELSE Return([guidance |-> got.value])
        ELSE IF method = Str("tools/list")
        THEN Return([tools |-> tools_list])
        ELSE Return(UnknownMethodResponse(method))

\* json.loads(line.strip())
json_loads(ln) ==
    CASE ln.text = "garbage" -> Raise("JSONDecodeError", "Expecting value")
      [] ln.text = "empty"   -> Raise("JSONDecodeError", "Expecting value")
      [] ln.text = "deep"    -> Raise("RecursionError", "maximum recursion depth exceeded")
      [] ln.text = "json"    -> Return(ln.v)

Unbound == [t |-> "unbound"]

\* the parse-error reply built with the default id of the other paths
ParseErrorResponse_DefaultId(msg) ==
    [jsonrpc |-> Str("2.0"),
     id      |-> Num(1),
     error   |-> Obj([code |-> Num(-32700), message |-> Str("Parse error"),
                      data |-> Str(msg)])]

ParseErrorResponse(msg) ==
    [jsonrpc |-> Str("2.0"),
     id      |-> Null,
     error   |-> Obj([code |-> Num(-32700), message |-> Str("Parse error"),
                      data |-> Str(msg)])]

InternalErrorResponse(id, msg) ==
    [jsonrpc |-> Str("2.0"),
     id      |-> id,
     error   |-> Obj([code |-> Num(-32603), message |-> Str("Internal error"),
                      data |-> Str(msg)])]

\* the id the `except Exception` handler computes from the local `request`:
\* request.get("id", 1) if 'request' in locals() else None
ExceptId(req) ==
    IF req = Unbound THEN Return(Null)
    ELSE IF IsDict(req) THEN Return(Get(req, "id", Num(1)))
    ELSE AttrError("request has no attribute 'get'")

\* the id assignment forgotten
WithRpcFields_NoId(response, req) == [jsonrpc |-> Str("2.0")] @@ response

\* response["jsonrpc"] = "2.0"; response["id"] = request.get("id", 1)
WithRpcFields(response, req) ==
    [jsonrpc |-> Str("2.0"), id |-> Get(req, "id", Num(1))] @@ response

\* line = sys.stdin.readline(), a line was there
ReadLine ==
    /\ mpc = "read"
    /\ stdin # <<>>
    /\ line' = Head(stdin)
    /\ stdin' = Tail(stdin)
    /\ served' = Append(served, Head(stdin))
    /\ mpc' = "handle"
    /\ UNCHANGED <<request, stdout, prompts, bill, run, api>>

\* if not line: break
ReadEof ==
    /\ mpc = "read"
    /\ stdin = <<>>
    /\ mpc' = "eof"
    /\ UNCHANGED <<stdin, line, request, stdout, served, prompts, bill, run, api>>

\* the `except Exception` clause, with `request` bound to req
ExceptException(req, msg) ==
    LET id == ExceptId(req)
    IN  IF id.raised
        THEN /\ mpc' = "raised"
             /\ stdout' = stdout
        ELSE /\ mpc' = "read"
             /\ stdout' = Append(stdout, InternalErrorResponse(id.value, msg))

\* the rest of one iteration: parse, dispatch, print; or one of the handlers
HandleLine ==
    /\ mpc = "handle"
    /\ LET parsed == json_loads(line)
       IN  IF parsed.raised
           THEN /\ request' = request
                /\ IF parsed.exc = "JSONDecodeError"
                   THEN /\ stdout' = Append(stdout, ParseErrorResponse(parsed.msg))
                        /\ mpc' = "read"
                   ELSE ExceptException(request, parsed.msg)
           ELSE /\ request' = parsed.value
                /\ LET response == handle_mcp_request(parsed.value, prompts)
                   IN  IF response.raised
                       THEN ExceptException(parsed.value, response.msg)
                       ELSE /\ stdout' = Append(stdout,
                                            WithRpcFields(response.value, parsed.value))
                            /\ mpc' = "read"
    /\ UNCHANGED <<stdin, line, served, prompts, bill, run, api>>

------------------------------------------------------------------------------
(* The prompt server's run: the templates on disk and the lines a client    *)
(* sends before closing the stream.                                         *)

MaxLines == 3

SampleStore ==
    <<[name |-> "medical_processor",
       body |-> <<Lit("Analyze the record of"), Ph("patient"), Lit("focus on"), Ph("focus")>>],
      [name |-> "patient_summary",
       body |-> <<Lit("Summarize"), Ph("patient")>>]>>

Req(fields) == [text |-> "json", v |-> Obj(fields)]

Lines ==
    { [text |-> "garbage"],
      [text |-> "empty"],
      [text |-> "deep"],
      [text |-> "json", v |-> Num(5)],
      [text |-> "json", v |-> Null],
      Req([method |-> Str("prompts/list"), id |-> Num(7)]),
      Req([method |-> Str("prompts/list"), params |-> Num(5)]),
      Req([method |-> Str("prompts/get"), id |-> Num(8),
           params |-> Obj([name |-> Str("medical_processor"),
                           context |-> Obj([patient |-> Str("X")])])]),
      Req([method |-> Str("prompts/get"), id |-> Num(7),
           params |-> Obj([name |-> Str("missing")])]),
      Req([method |-> Str("prompts/get"), id |-> Num(7),
           params |-> Obj([name |-> Arr(<<>>)])]),
      Req([method |-> Str("prompts/get"), id |-> Num(8), params |-> Num(5)]),
      Req([method |-> Str("tools/guidance"), id |-> Num(7),
           params |-> Obj([task |-> Str("analyze_file")])]),
      Req([method |-> Str("tools/guidance"), params |-> Null]),
      Req([method |-> Str("tools/list"), id |-> Num(8)]),
      Req([method |-> Str("foo"), id |-> Num(7)]),
      Req([id |-> Num(8)]) }

\* the tools/guidance requests a client sends: the four catalog tasks, a task
\* the catalog does not have, the task parameter or the params left out, a
\* null task, and a task that is a JSON array
GuidanceLines ==
    { Req([method |-> Str("tools/guidance"), id |-> Num(7),
           params |-> Obj([task |-> Str(t)])])
        : t \in GuidanceTasks \cup {"unknown_task"} }
    \cup
    { Req([method |-> Str("tools/guidance"), id |-> Num(8), params |-> Obj(NoKeys)]),
      Req([method |-> Str("tools/guidance")]),
      Req([method |-> Str("tools/guidance"), id |-> Num(8),
           params |-> Obj([task |-> Null])]),
      Req([method |-> Str("tools/guidance"), id |-> Num(7),
           params |-> Obj([task |-> Arr(<<>>)])]) }

NoBill == [phase |-> "idle"]
NoRun  == [pc |-> "idle"]
NoApi  == [impl |-> "idle"]

ProtoInit ==
    /\ prompts = SampleStore
    /\ stdin \in UNION {[1..n -> Lines] : n \in 0..MaxLines}
    /\ line = Unbound
    /\ request = Unbound
    /\ stdout = <<>>
    /\ served = <<>>
    /\ mpc = "read"
    /\ bill = NoBill
    /\ run = NoRun
    /\ api = NoApi

ProtoNext == ReadLine \/ ReadEof \/ HandleLine

SpecProto == ProtoInit /\ [][ProtoNext]_vars

\* main() is a sequential loop: it takes its next step whenever it has one
SpecProtoFair == SpecProto /\ WF_vars(ProtoNext)

\* the prompts/get requests a client sends: no context, one key, both keys,
\* a key the template does not have, a number, a value that reads as the
\* other placeholder (in either key order), and a name that is not loaded
PromptContexts ==
    { Obj(NoKeys),
      Obj([patient |-> Str("X")]),
      Obj([focus |-> Num(5)]),
      Obj([ward |-> Str("W")]),
      ObjInOrder([patient |-> Str("X"), focus |-> Str("Y")], <<"patient", "focus">>),
      ObjInOrder([patient |-> Str("{{focus}}"), focus |-> Str("X")], <<"patient", "focus">>),
      ObjInOrder([patient |-> Str("{{focus}}"), focus |-> Str("X")], <<"focus", "patient">>) }

PromptLines ==
    { Req([method |-> Str("prompts/get"), id |-> Num(7),
           params |-> Obj([name |-> Str("medical_processor"), context |-> c])])
        : c \in PromptContexts }
    \cup
    { Req([method |-> Str("prompts/get"), id |-> Num(8),
           params |-> Obj([name |-> Str("patient_summary")])]),
      Req([method |-> Str("prompts/get"), id |-> Num(8),
           params |-> Obj([name |-> Str("missing"),
                           context |-> Obj([patient |-> Str("X")])])]) }

\* the prompt server answering prompts/get only
PromptInit ==
    /\ prompts = SampleStore
    /\ stdin \in UNION {[1..n -> PromptLines] : n \in 0..MaxLines}
    /\ line = Unbound
    /\ request = Unbound
    /\ stdout = <<>>
    /\ served = <<>>
    /\ mpc = "read"
    /\ bill = NoBill
    /\ run = NoRun
    /\ api = NoApi

SpecPrompt == PromptInit /\ [][ProtoNext]_vars

\* the prompt server answering guidance queries only
GuidanceInit ==
    /\ prompts = SampleStore
    /\ stdin \in UNION {[1..n -> GuidanceLines] : n \in 0..MaxLines}
    /\ line = Unbound
    /\ request = Unbound
    /\ stdout = <<>>
    /\ served = <<>>
    /\ mpc = "read"
    /\ bill = NoBill
    /\ run = NoRun
    /\ api = NoApi

SpecGuidance == GuidanceInit /\ [][ProtoNext]_vars

\* medical_agent_enhanced.guided_analysis, step 3: the steps it goes through,
\* in the order of guidance.get("guidance", {}).get("steps", [])
guided_steps(guidance) ==
    IF "guidance" \notin DOMAIN guidance THEN <<>>
    ELSE IF "steps" \notin DOMAIN guidance.guidance THEN <<>>
    ELSE guidance.guidance.steps

------------------------------------------------------------------------------
(* Calls of calculate_billing: the arguments are drawn at the start, the    *)
(* call returns the dict.                                                   *)

MaxDocs == 12
MaxNegDocs == 2

BillingImpls == {"medical_mcp_server", "medical_mcp_server_fixed"}
AnalysisTypes == TierNames \cup {"nonexistent_tier"}
CustomerTiers == {"standard", "premium", "enterprise", "gold"}

BillingInit ==
    /\ bill \in [phase : {"called"},
                 impl : BillingImpls,
                 analysis_type : AnalysisTypes,
                 document_count : (-MaxNegDocs)..MaxDocs,
                 customer_tier : CustomerTiers]
    /\ prompts = SampleStore
    /\ stdin = <<>>
    /\ line = Unbound
    /\ request = Unbound
    /\ stdout = <<>>
    /\ served = <<>>
    /\ mpc = "idle"
    /\ run = NoRun
    /\ api = NoApi

CalculateBillingReturns ==
    /\ bill.phase = "called"
    /\ bill.impl = "medical_mcp_server"
    /\ bill' = [phase |-> "returned", impl |-> bill.impl,
                analysis_type |-> bill.analysis_type,
                document_count |-> bill.document_count,
                customer_tier |-> bill.customer_tier,
                result |-> calculate_billing(bill.analysis_type, bill.document_count,
                                             bill.customer_tier)]
    /\ UNCHANGED <<stdin, line, request, stdout, served, mpc, prompts, run, api>>

CalculateBillingFixedReturns ==
    /\ bill.phase = "called"
    /\ bill.impl = "medical_mcp_server_fixed"
    /\ bill' = [phase |-> "returned", impl |-> bill.impl,
                analysis_type |-> bill.analysis_type,
                document_count |-> bill.document_count,
                customer_tier |-> bill.customer_tier,
                result |-> calculate_billing_fixed(bill.analysis_type, bill.document_count,
                                                   bill.customer_tier)]
    /\ UNCHANGED <<stdin, line, request, stdout, served, mpc, prompts, run, api>>

BillingNext == CalculateBillingReturns \/ CalculateBillingFixedReturns

SpecBilling == BillingInit /\ [][BillingNext]_vars

Priced == bill.phase = "returned" /\ "error" \notin DOMAIN bill.result

\* C9: for every known tier, every document count >= 0 and every customer
\* class, the returned 2-decimal fields satisfy
\* final_total = subtotal - total_discount.
C9_TotalsAddUp ==
    (Priced /\ bill.document_count >= 0)
        => bill.result.final_total = bill.result.subtotal - bill.result.total_discount

\* C10: for every known tier, every document count n >= 0 and every customer
\* class, recognized or not, calculate_billing returns no error and
\* final_total >= 0; for n = 0 it returns subtotal = 0 and final_total = 0.
C10_FinalTotalNonNegative ==
    (bill.phase = "returned" /\ bill.analysis_type \in TierNames /\ bill.document_count >= 0)
        => /\ "error" \notin DOMAIN bill.result
           /\ bill.result.final_total >= 0
           /\ bill.document_count = 0
                => bill.result.subtotal = 0 /\ bill.result.final_total = 0

C10_Witness ==
    /\ Priced
    /\ bill.document_count = 0
    /\ bill.customer_tier = "gold"
    /\ bill.result.subtotal = 0
    /\ bill.result.final_total = 0

\* the rates and amounts the billing claims name, as Python floats
NoRate         == DecToDouble(0, 10)
TenPercent     == DecToDouble(1, 10)
ListPrice(t, n) == FMul(BILLING_TIERS[t].price, IntToDouble(n))

VolumeApplies == bill.analysis_type = "batch" /\ bill.document_count > 10

ExpectedVolumeRate == IF VolumeApplies THEN TenPercent ELSE NoRate

\* C11: the volume discount rate calculate_billing applies is 0.10 exactly
\* when the tier is "batch" and the count is above 10 (so 0 for batch at 10 and
\* 0.10 at 11) and 0 for every other tier at every count; the returned
\* discount amounts are the ones that rate gives.
C11_VolumeDiscountThreshold ==
    Priced =>
        LET subtotal == ListPrice(bill.analysis_type, bill.document_count)
        IN  /\ volume_discount_rate(bill.analysis_type, bill.document_count)
                    = ExpectedVolumeRate
            /\ bill.impl = "medical_mcp_server"
                    => bill.result.volume_discount
                            = Round2(FMul(ExpectedVolumeRate, subtotal))
            /\ bill.customer_tier = "standard"
                    => bill.result.total_discount
                            = Round2(FMul(ExpectedVolumeRate, subtotal))
            /\ ~VolumeApplies /\ bill.impl = "medical_mcp_server"
                    => bill.result.volume_discount = 0

C11_Witness ==
    /\ Priced
    /\ bill.impl = "medical_mcp_server"
    /\ bill.analysis_type = "batch"
    /\ bill.document_count = 11
    /\ bill.result.volume_discount = 6

\* the customer discount table of the contract
ContractCustomerRate(c) ==
    CASE c = "premium"    -> DecToDouble(5, 100)
      [] c = "enterprise" -> DecToDouble(15, 100)
      [] OTHER            -> NoRate

\* C12: the two discount rates are added and the sum is applied once to the
\* subtotal (unit price x count, before it is rounded for display); the
\* customer rate is 0.00 / 0.05 / 0.15 for standard / premium / enterprise
\* and 0.00 without an error for any other class; so with no volume discount
\* the total discount is the customer discount alone.
C12_DiscountsAdd ==
    (bill.phase = "returned" /\ bill.analysis_type \in TierNames) =>
        LET subtotal == ListPrice(bill.analysis_type, bill.document_count)
            customer == ContractCustomerRate(bill.customer_tier)
        IN  /\ "error" \notin DOMAIN bill.result
            /\ bill.result.total_discount
                    = Round2(FMul(FAdd(ExpectedVolumeRate, customer), subtotal))
            /\ ~VolumeApplies
                    => /\ bill.result.total_discount = Round2(FMul(customer, subtotal))
                       /\ bill.impl = "medical_mcp_server"
                            => bill.result.total_discount
                                    = bill.result.customer_tier_discount

\* (basic, 10, enterprise): subtotal 1.00, total discount 0.15
C12_Witness ==
    /\ Priced
    /\ bill.analysis_type = "basic"
    /\ bill.document_count = 10
    /\ bill.customer_tier = "enterprise"
    /\ bill.result.subtotal = 100
    /\ bill.result.total_discount = 15

\* C13 as stated: for every known tier and every count n >= 1 the standard
\* class pays round(unit_price x n, 2).
C13_StandardPaysListPrice ==
    (Priced /\ bill.customer_tier = "standard" /\ bill.document_count >= 1)
        => bill.result.final_total
                = Round2(ListPrice(bill.analysis_type, bill.document_count))

\* C13 below the batch threshold: for every known tier and every count n >= 1
\* to which no volume discount applies (any tier but batch, and batch up to
\* 10), the standard class pays round(unit_price x n, 2).
C13_StandardPaysListPriceBelowThreshold ==
    (Priced /\ bill.customer_tier = "standard" /\ bill.document_count >= 1
            /\ ~VolumeApplies)
        => bill.result.final_total
                = Round2(ListPrice(bill.analysis_type, bill.document_count))

C13_Witness ==
    /\ Priced
    /\ bill.customer_tier = "standard"
    /\ bill.analysis_type = "comprehensive"
    /\ bill.document_count = 3
    /\ bill.result.final_total = 150

PriceFields ==
    {"subtotal", "volume_discount", "customer_tier_discount", "total_discount",
     "final_total", "base_price_per_document"}

\* C14: for a tier name outside the registry, whatever the count and the
\* customer class, calculate_billing returns an object with an error field
\* and no price field.
C14_UnknownTierIsErrorResult ==
    (bill.phase = "returned" /\ bill.analysis_type \notin TierNames)
        => /\ "error" \in DOMAIN bill.result
           /\ DOMAIN bill.result \cap PriceFields = {}

C14_Witness ==
    /\ bill.phase = "returned"
    /\ bill.analysis_type = "nonexistent_tier"
    /\ bill.document_count = 1
    /\ bill.customer_tier = "standard"
    /\ DOMAIN bill.result = {"error"}

\* C15: for a negative count calculate_billing returns an error result and
\* never a priced one, for every tier and customer class.
C15_NegativeCountRejected ==
    (bill.phase = "returned" /\ bill.document_count < 0)
        => /\ "error" \in DOMAIN bill.result
           /\ DOMAIN bill.result \cap PriceFields = {}

------------------------------------------------------------------------------
(* analyze_with_billing in medical_agent.py and medical_agent_enhanced.py.  *)
(* Every awaited collaborator call either returns or raises; a call that    *)
(* records a billing event may also raise after the event was recorded.     *)

DictGet(d, k, default) == IF k \in DOMAIN d THEN d[k] ELSE default

\* the whole part of a double of magnitude below 2^28, as int() gives it
IntOf(x) ==
    IF x.e >= 0 THEN x.s * ToInt(ShiftLeft(x.m, x.e))
    ELSE LET d  == (-x.e + 13) \div 14
             a2 == ShiftLeft(x.m, 14 * d + x.e)
         IN  x.s * ToInt(SubSeq(a2, d + 1, Len(a2)))

\* BILLING_TIERS.get(request_type, BILLING_TIERS["basic"])
TierFor(request_type) ==
    IF request_type \in TierNames THEN BILLING_TIERS[request_type]
    ELSE BILLING_TIERS["basic"]

\* the arguments track_usage gives create_usage_record
UsageRecord(request_type, customer_id) ==
    [customer |-> customer_id,
     quantity |-> 1,
     amount   |-> IntOf(FMul(TierFor(request_type).price, IntToDouble(100)))]

\* the billing event the billing prompt of medical_agent_enhanced.py asks for
BillingPromptEvent(analysis_type, customer_id) ==
    [customer |-> customer_id,
     service  |-> analysis_type,
     price    |-> TierFor(analysis_type).price]

Variants == {"medical_agent", "medical_agent_enhanced", "medical_agent_mcp"}

RequestData ==
    {[query |-> "q"], [file_path |-> "/f"]}
    \cup {[query |-> "q", type |-> t] : t \in TierNames \cup {"adhoc"}}
    \cup {[file_path |-> "/f", type |-> t] : t \in TierNames \cup {"adhoc"}}

CustomerIds == {"cus_1"}

NoResult == [status |-> "none"]

AgentInit ==
    /\ run \in [variant : Variants, request_data : RequestData,
                customer_id : CustomerIds, pc : {"start"},
                calls : {<<>>}, events : {<<>>}, result : {NoResult}]
    /\ bill = NoBill
    /\ prompts = SampleStore
    /\ stdin = <<>>
    /\ line = Unbound
    /\ request = Unbound
    /\ stdout = <<>>
    /\ served = <<>>
    /\ mpc = "idle"
    /\ api = NoApi

AgentFrame == UNCHANGED <<bill, stdin, line, request, stdout, served, mpc, prompts, api>>

Called(r, name) == Append(r.calls, name)

\* the except clause of medical_agent.py
BasicError(msg) ==
    [status |-> "error", error |-> msg, message |-> "Failed to process request"]

\* the except clause of medical_agent_enhanced.py
EnhancedError(msg) == [status |-> "error", error |-> msg, billed |-> FALSE]

\* return {"status": "success", "analysis": result, "billed": True, "tier": ...}
BasicSuccess(request_data) ==
    [status |-> "success", analysis |-> "analysis text", billed |-> TRUE,
     tier |-> DictGet(request_data, "type", "basic")]

EnhancedSuccess(request_data, customer_id) ==
    LET analysis_type == DictGet(request_data, "type", "basic")
    IN  [status |-> "success", analysis |-> "analysis text", billed |-> TRUE,
         tier |-> analysis_type, price |-> TierFor(analysis_type).price,
         customer_id |-> customer_id]

\* medical_agent_mcp.analyze_document: the agent's answer, or the result its
\* except clause builds when fast.run() or agent.send raises
mcp_analyze_document(outcome) ==
    IF outcome = "ok"
    THEN [status |-> "success", analysis |-> "analysis text"]
    ELSE [status |-> "error", error |-> "agent failed"]

\* medical_agent_mcp.analyze_with_billing
mcp_analyze_with_billing(request_data, customer_id, outcome) ==
    LET analysis_type == DictGet(request_data, "type", "basic")
        tier          == TierFor(analysis_type)
        result        == mcp_analyze_document(outcome)
    IN  IF result.status = "success"
        THEN [billed |-> TRUE, tier |-> analysis_type, price |-> tier.price,
              customer_id |-> customer_id] @@ result
        ELSE result

\* Each step of a run r of analyze_with_billing, given how the collaborator
\* call it makes turns out.

\* async with fast.run() as agent: outside the try in medical_agent.py,
\* inside it in medical_agent_enhanced.py and in analyze_document of
\* medical_agent_mcp.py
fast_run(r, outcome) ==
    [r EXCEPT
        !.calls = Called(r, "fast.run"),
        !.pc = IF outcome = "ok"
               THEN (CASE r.variant = "medical_agent" -> "get_customer"
                       [] r.variant = "medical_agent_enhanced" -> "guidance"
                       [] r.variant = "medical_agent_mcp" -> "analyze")
               ELSE (IF r.variant = "medical_agent" THEN "raised" ELSE "done"),
        !.result = CASE outcome = "raise" /\ r.variant = "medical_agent_enhanced" ->
                            EnhancedError("fast.run failed")
                     [] outcome = "raise" /\ r.variant = "medical_agent_mcp" ->
                            mcp_analyze_with_billing(r.request_data, r.customer_id, "raise")
                     [] OTHER -> @]

\* customer = await agent.call_tool("get_customer", ...); if not customer: ...
get_customer(r, outcome) ==
    [r EXCEPT
        !.calls = Called(r, "get_customer"),
        !.pc = IF outcome = "customer" THEN "track_usage" ELSE "done",
        !.result = CASE outcome = "customer" -> @
                     [] outcome = "none" ->
                            [error |-> "Invalid customer", status |-> "error"]
                     [] outcome = "raise" -> BasicError("get_customer failed")]

\* await track_usage(...): the exception of create_usage_record is logged and
\* dropped
track_usage(r, outcome) ==
    [r EXCEPT
        !.calls = Called(r, "create_usage_record"),
        !.events = IF outcome = "raise" THEN @
                   ELSE Append(@, UsageRecord(DictGet(r.request_data, "type", "basic"),
                                              r.customer_id)),
        !.pc = "analyze"]

\* medical_agent_enhanced.py: response = await agent.send(guidance_prompt)
send_guidance(r, outcome) ==
    [r EXCEPT
        !.calls = Called(r, "send guidance_prompt"),
        !.pc = IF outcome = "ok" THEN "analyze" ELSE "done",
        !.result = IF outcome = "ok" THEN @ ELSE EnhancedError("send failed")]

\* result = await agent.send(...), the analysis itself
send_analysis(r, outcome) ==
    [r EXCEPT
        !.calls = Called(r, "send analysis"),
        !.pc = IF outcome = "ok" /\ r.variant = "medical_agent_enhanced"
               THEN "billing" ELSE "done",
        !.result = CASE r.variant = "medical_agent_mcp" ->
                            mcp_analyze_with_billing(r.request_data, r.customer_id, outcome)
                     [] outcome = "raise" /\ r.variant = "medical_agent" ->
                            BasicError("send failed")
                     [] outcome = "raise" /\ r.variant = "medical_agent_enhanced" ->
                            EnhancedError("send failed")
                     [] outcome = "ok" /\ r.variant = "medical_agent" ->
                            BasicSuccess(r.request_data)
                     [] OTHER -> @]

\* medical_agent_enhanced.py: billing_result = await agent.send(billing_prompt)
send_billing(r, outcome) ==
    [r EXCEPT
        !.calls = Called(r, "send billing_prompt"),
        !.events = IF outcome = "raise" THEN @
                   ELSE Append(@, BillingPromptEvent(
                            DictGet(r.request_data, "type", "basic"), r.customer_id)),
        !.pc = "done",
        !.result = IF outcome = "ok"
                   THEN EnhancedSuccess(r.request_data, r.customer_id)
                   ELSE EnhancedError("send failed")]

RunStart ==
    /\ run.pc = "start"
    /\ \E outcome \in {"ok", "raise"} : run' = fast_run(run, outcome)
    /\ AgentFrame

GetCustomer ==
    /\ run.pc = "get_customer"
    /\ \E outcome \in {"customer", "none", "raise"} : run' = get_customer(run, outcome)
    /\ AgentFrame

TrackUsage ==
    /\ run.pc = "track_usage"
    /\ \E outcome \in {"ok", "raise", "raise_after_record"} :
        run' = track_usage(run, outcome)
    /\ AgentFrame

SendGuidance ==
    /\ run.pc = "guidance"
    /\ \E outcome \in {"ok", "raise"} : run' = send_guidance(run, outcome)
    /\ AgentFrame

SendAnalysis ==
    /\ run.pc = "analyze"
    /\ \E outcome \in {"ok", "raise"} : run' = send_analysis(run, outcome)
    /\ AgentFrame

SendBilling ==
    /\ run.pc = "billing"
    /\ \E outcome \in {"ok", "raise", "raise_after_record"} :
        run' = send_billing(run, outcome)
    /\ AgentFrame

AgentNext ==
    RunStart \/ GetCustomer \/ TrackUsage \/ SendGuidance \/ SendAnalysis \/ SendBilling

SpecAgent == AgentInit /\ [][AgentNext]_vars

\* The variants run on the same request against the same collaborators: a
\* script says, for each collaborator call, whether it succeeds or raises.
CollaboratorCalls ==
    {"fast.run", "get_customer", "create_usage_record", "send guidance_prompt",
     "send analysis", "send billing_prompt"}

Scripts == [CollaboratorCalls -> {"ok", "raise"}]

\* the next step of run r under the script
ScriptedStep(r, script) ==
    CASE r.pc = "start"        -> fast_run(r, script["fast.run"])
      [] r.pc = "get_customer" ->
            get_customer(r, IF script["get_customer"] = "ok" THEN "customer" ELSE "raise")
      [] r.pc = "track_usage"  -> track_usage(r, script["create_usage_record"])
      [] r.pc = "guidance"     -> send_guidance(r, script["send guidance_prompt"])
      [] r.pc = "analyze"      -> send_analysis(r, script["send analysis"])
      [] r.pc = "billing"      -> send_billing(r, script["send billing_prompt"])

\* run r taken to its end
RECURSIVE RunToEnd(_, _)
RunToEnd(r, script) ==
    IF r.pc \in {"done", "raised"} THEN r ELSE RunToEnd(ScriptedStep(r, script), script)

StartOf(variant, request_data, customer_id) ==
    [variant |-> variant, request_data |-> request_data, customer_id |-> customer_id,
     pc |-> "start", calls |-> <<>>, events |-> <<>>, result |-> NoResult]

VariantsInit ==
    /\ run \in [pc : {"compare"}, request_data : RequestData,
                 customer_id : CustomerIds, script : Scripts]
    /\ bill = NoBill
    /\ api = NoApi
    /\ prompts = SampleStore
    /\ stdin = <<>>
    /\ line = Unbound
    /\ request = Unbound
    /\ stdout = <<>>
    /\ served = <<>>
    /\ mpc = "idle"

\* every variant of analyze_with_billing run on the request
CompareVariants ==
    /\ run.pc = "compare"
    /\ run' = [pc |-> "compared", request_data |-> run.request_data,
               customer_id |-> run.customer_id, script |-> run.script,
               runs |-> [v \in Variants |->
                    RunToEnd(StartOf(v, run.request_data, run.customer_id), run.script)]]
    /\ AgentFrame

SpecVariants == VariantsInit /\ [][CompareVariants]_vars

\* C1: a run of analyze_with_billing that ends with status error has issued
\* no billing event, and a run that ends with status success at most one,
\* whichever collaborator call fails and wherever.
C1_NoBillingOnError ==
    run.pc = "done" =>
        /\ run.result.status = "error" => Len(run.events) = 0
        /\ run.result.status = "success" => Len(run.events) <= 1

\* C18: whichever collaborator call raises, and wherever (starting the agent
\* runtime, customer lookup, guidance, analysis, billing), no exception leaves
\* analyze_with_billing: the run ends by returning an object whose status is
\* success or error, an error one carrying the message in its error field.
C18_AlwaysReturnsResult ==
    /\ run.pc # "raised"
    /\ run.pc = "done" =>
            /\ run.result.status \in {"success", "error"}
            /\ run.result.status = "error" => "error" \in DOMAIN run.result

------------------------------------------------------------------------------
(* The HTTP layer: api_server.py, over analyze_with_billing of              *)
(* medical_agent_mcp.py, and simple_medical_api.py.  A background task runs *)
(* after the response of the request that queued it.                        *)

MaxRequests == 2
MaxQueries == 2

\* len(request.query) < 500
QueryLimit == 500

ApiImpls == {"api_server", "simple_medical_api"}

\* the query of a request: None, "", a short text, a long one
QueryTexts == {"none", "empty", "short", "long"}

QueryLength(q) ==
    CASE q = "short" -> 40
      [] q = "long"  -> 600
      [] OTHER       -> 0

\* the AnalysisRequest bodies clients post: a short query, a file (as
\* test_api.py does), a long query, and an empty query with a type that is
\* not a billing tier
AnalysisRequests ==
    { [customer_id |-> "cus_1", type |-> "basic", query |-> "short", file_path |-> "none"],
      [customer_id |-> "cus_1", type |-> "basic", query |-> "none", file_path |-> "/f"],
      [customer_id |-> "cus_2", type |-> "comprehensive", query |-> "long",
       file_path |-> "none"],
      [customer_id |-> "cus_2", type |-> "adhoc", query |-> "empty", file_path |-> "none"] }

\* request.query and len(request.query) < 500
SmallQuery(req) ==
    req.query \notin {"none", "empty"} /\ QueryLength(req.query) < QueryLimit

ResponseFields == {"status", "job_id", "analysis", "error", "billed", "tier", "price"}

\* AnalysisResponse(**fields): the fields of the model that were given
AnalysisResponse(fields) ==
    [k \in DOMAIN fields \cap ResponseFields |-> fields[k]]

NoJobs == [j \in {} |-> NoResult]

ApiInit ==
    /\ api \in [impl : ApiImpls, analysis_jobs : {NoJobs}, tasks : {{}},
                 submitted : {<<>>}, invoked : {<<>>}, responses : {<<>>},
                 answers : {<<>>}]
    /\ bill = NoBill
    /\ run = NoRun
    /\ prompts = SampleStore
    /\ stdin = <<>>
    /\ line = Unbound
    /\ request = Unbound
    /\ stdout = <<>>
    /\ served = <<>>
    /\ mpc = "idle"

ApiFrame == UNCHANGED <<bill, stdin, line, request, stdout, served, mpc, prompts, run>>

\* the request is the n-th submitted; its job, when one is queued, gets a
\* fresh id, n
Submit(req, calls, answered, body) ==
    LET n == Len(api.submitted) + 1
    IN  api' = [api EXCEPT
            !.submitted = Append(@, req),
            !.invoked   = Append(@, calls),
            !.tasks     = IF answered THEN @
                          ELSE @ \cup {[job_id |-> n, request |-> n, pc |-> "queued"]},
            !.responses = Append(@, [to |-> "analyze", request |-> n,
                body |-> IF answered THEN body
                         ELSE AnalysisResponse([status |-> "processing", job_id |-> n,
                                                tier |-> req.type])])]

\* api_server.analyze_document, for a request among those given
AnalyzeDocumentOf(requests) ==
    /\ api.impl = "api_server"
    /\ Len(api.submitted) < MaxRequests
    /\ \E req \in requests, outcome \in {"ok", "raise"} :
        LET direct == SmallQuery(req) \/ req.file_path # "none"
            result == mcp_analyze_with_billing(req, req.customer_id, outcome)
        IN  Submit(req, IF direct THEN 1 ELSE 0,
                   direct /\ result.status = "success", AnalysisResponse(result))
    /\ ApiFrame

AnalyzeDocument == AnalyzeDocumentOf(AnalysisRequests)

\* api_server.process_analysis, a background task, up to its await: the call
\* of analyze_with_billing is made with the task's own arguments
StartProcessAnalysis ==
    /\ api.impl = "api_server"
    /\ \E task \in api.tasks :
        /\ task.pc = "queued"
        /\ api' = [api EXCEPT
                !.tasks = (@ \ {task}) \cup {[task EXCEPT !.pc = "running"]},
                !.invoked[task.request] = @ + 1]
    /\ ApiFrame

\* process_analysis keeping its result under the id of the newest job
ProcessAnalysis_NewestJob ==
    /\ api.impl = "api_server"
    /\ \E task \in api.tasks, outcome \in {"ok", "raise"} :
        /\ task.pc = "running"
        /\ LET req    == api.submitted[task.request]
               result == mcp_analyze_with_billing(req, req.customer_id, outcome)
           IN  api' = [api EXCEPT
                   !.tasks = @ \ {task},
                   !.analysis_jobs = (Len(api.submitted) :> result) @@ @]
    /\ ApiFrame

\* api_server.process_analysis from the return of analyze_with_billing on:
\* analysis_jobs[job_id] = result
ProcessAnalysis ==
    /\ api.impl = "api_server"
    /\ \E task \in api.tasks, outcome \in {"ok", "raise"} :
        /\ task.pc = "running"
        /\ LET req    == api.submitted[task.request]
               result == mcp_analyze_with_billing(req, req.customer_id, outcome)
           IN  api' = [api EXCEPT
                   !.tasks = @ \ {task},
                   !.analysis_jobs = (task.job_id :> result) @@ @]
    /\ ApiFrame

\* the result simple_medical_api builds after analyze_medical_text
SimpleSuccess(req) ==
    [status |-> "success", analysis |-> "analysis text", billed |-> TRUE,
     tier |-> req.type, price |-> TierFor(req.type).price,
     customer_id |-> req.customer_id]

\* simple_medical_api.analyze_document, for a request among those given
SimpleAnalyzeDocumentOf(requests) ==
    /\ api.impl = "simple_medical_api"
    /\ Len(api.submitted) < MaxRequests
    /\ \E req \in requests :
        Submit(req, IF SmallQuery(req) THEN 1 ELSE 0, SmallQuery(req),
               AnalysisResponse(SimpleSuccess(req)))
    /\ ApiFrame

SimpleAnalyzeDocument == SimpleAnalyzeDocumentOf(AnalysisRequests)

\* process_analysis_job ending without an entry in analysis_jobs
ProcessAnalysisJob_Lost ==
    /\ api.impl = "simple_medical_api"
    /\ \E task \in api.tasks :
        api' = [api EXCEPT
            !.tasks = @ \ {task},
            !.invoked[task.request] = @ + 1]
    /\ ApiFrame

\* simple_medical_api.process_analysis_job, run as a background task
ProcessAnalysisJob ==
    /\ api.impl = "simple_medical_api"
    /\ \E task \in api.tasks :
        api' = [api EXCEPT
            !.tasks = @ \ {task},
            !.invoked[task.request] = @ + 1,
            !.analysis_jobs = (task.job_id :> SimpleSuccess(api.submitted[task.request])) @@ @]
    /\ ApiFrame

\* get_job_status handing a stored result out once: analysis_jobs.pop(job_id)
GetJobStatus_Pop ==
    /\ api.impl \in ApiImpls
    /\ Len(api.answers) < MaxQueries
    /\ \E job_id \in 0..MaxRequests :
        api' = [api EXCEPT
            !.answers = Append(@, [job_id |-> job_id,
                body |-> IF job_id \in DOMAIN api.analysis_jobs
                         THEN api.analysis_jobs[job_id]
                         ELSE [status |-> "pending", job_id |-> job_id]]),
            !.analysis_jobs = [j \in DOMAIN @ \ {job_id} |-> @[j]]]
    /\ ApiFrame

\* get_job_status, the same in both servers; job id 0 was never issued
GetJobStatus ==
    /\ api.impl \in ApiImpls
    /\ Len(api.answers) < MaxQueries
    /\ \E job_id \in 0..MaxRequests :
        api' = [api EXCEPT
            !.answers = Append(@, [job_id |-> job_id,
                body |-> IF job_id \in DOMAIN api.analysis_jobs
                         THEN api.analysis_jobs[job_id]
                         ELSE [status |-> "pending", job_id |-> job_id]])]
    /\ ApiFrame

ApiNext ==
    \/ AnalyzeDocument
    \/ StartProcessAnalysis
    \/ ProcessAnalysis
    \/ SimpleAnalyzeDocument
    \/ ProcessAnalysisJob
    \/ GetJobStatus

SpecApi == ApiInit /\ [][ApiNext]_vars

\* the clients of the fair runs post a short query, answered at once unless
\* the call fails, or a long one, always queued
FairRequests ==
    {req \in AnalysisRequests : req.file_path = "none" /\ req.query \in {"short", "long"}}

ApiFairNext ==
    \/ AnalyzeDocumentOf(FairRequests)
    \/ StartProcessAnalysis
    \/ ProcessAnalysis
    \/ SimpleAnalyzeDocumentOf(FairRequests)
    \/ ProcessAnalysisJob
    \/ GetJobStatus

\* BackgroundTasks runs each queued task after its response is sent, and the
\* call of analyze_with_billing made by a task returns or raises
SpecApiFair ==
    /\ ApiInit
    /\ [][ApiFairNext]_vars
    /\ WF_vars(StartProcessAnalysis)
    /\ WF_vars(ProcessAnalysis)
    /\ WF_vars(ProcessAnalysisJob)

\* C19: every result returned for an analysis request or a job-status query
\* has a status among success, error, processing, whether the job asked
\* about is unknown, queued or running, or finished.
C19_StatusIsKnown ==
    /\ \A i \in 1..Len(api.responses) :
        api.responses[i].body.status \in {"success", "error", "processing"}
    /\ \A i \in 1..Len(api.answers) :
        api.answers[i].body.status \in {"success", "error", "processing"}

\* C20: the analysis-with-billing operation is invoked at most once for each
\* submitted request, also when its first invocation returned status error.
C20_NoAutomaticRetry ==
    \A n \in 1..Len(api.submitted) : api.invoked[n] <= 1

------------------------------------------------------------------------------
(* Properties of the prompt server's loop.                                  *)

Terminated == mpc \in {"eof", "raised"}

\* the lines main() has finished with
Handled == IF mpc = "handle" THEN Len(served) - 1 ELSE Len(served)

Parsed(ln) == json_loads(ln)

Malformed(ln) == Parsed(ln).raised /\ Parsed(ln).exc = "JSONDecodeError"

IsRequestObject(ln) == ~Parsed(ln).raised /\ IsDict(Parsed(ln).value)

CarriesId(ln) == IsRequestObject(ln) /\ "id" \in DOMAIN Parsed(ln).value.f

SupportedMethods ==
    {Str("prompts/list"), Str("prompts/get"), Str("tools/guidance"), Str("tools/list")}

UnknownMethodLine(ln) ==
    IsRequestObject(ln) /\ Get(Parsed(ln).value, "method", Str("")) \notin SupportedMethods

\* unparseable text, an empty line, JSON that is not an object, or an object
\* whose params is not an object
BadMessage(ln) ==
    \/ Parsed(ln).raised
    \/ ~IsRequestObject(ln)
    \/ /\ "params" \in DOMAIN Parsed(ln).value.f
       /\ ~IsDict(Parsed(ln).value.f.params)

HasError(resp) == "error" \in DOMAIN resp

ErrorCode(resp) ==
    IF HasError(resp) /\ IsDict(resp.error) /\ "code" \in DOMAIN resp.error.f
    THEN resp.error.f.code ELSE Null

IsParseError(resp)    == ErrorCode(resp) = Num(-32700)
IsInternalError(resp) == ErrorCode(resp) = Num(-32603)

\* C2: every bad message gets an error response and the loop goes on to the
\* next line; no line makes the loop exit or an exception escape main().
C2_BadLineAnswered ==
    /\ mpc # "raised"
    /\ \A k \in 1..Handled :
          BadMessage(served[k]) => k <= Len(stdout) /\ HasError(stdout[k])

\* C3: one response line per input line, the k-th response answering the
\* k-th line and written before the next line is read, with the id of a
\* request that carries one.
C3_OneResponsePerLine ==
    /\ Len(stdout) = Handled
    /\ \A k \in 1..Len(stdout) :
          CarriesId(served[k]) => stdout[k].id = Parsed(served[k]).value.f.id

\* C4 (safety part): the loop stops only at end of input: never through
\* anything but the empty read, never with unread lines left.
C4_StopsOnlyAtEof == Terminated => (mpc = "eof" /\ stdin = <<>>)

\* C4 (liveness part): with the stream closed after finitely many lines the
\* loop eventually stops.
C4_EventuallyStops == <>Terminated

OwnOrDefaultId(ln) ==
    {Null, Num(1)} \cup (IF CarriesId(ln) THEN {Parsed(ln).value.f.id} ELSE {})

\* C6: an internal-error response carries the id of the message being
\* handled, or the default id when that message could not be parsed; never
\* the id of an earlier request.
C6_InternalErrorOwnId ==
    \A k \in 1..Len(stdout) :
        IsInternalError(stdout[k]) => stdout[k].id \in OwnOrDefaultId(served[k])

PayloadKeys == {"prompts", "prompt", "guidance", "tools"}

\* C7 as claimed: every line written has jsonrpc "2.0", an id, and exactly
\* one of result or error.
C7_ResultXorError ==
    \A k \in 1..Len(stdout) :
        /\ "jsonrpc" \in DOMAIN stdout[k] /\ stdout[k].jsonrpc = Str("2.0")
        /\ "id" \in DOMAIN stdout[k]
        /\ ("result" \in DOMAIN stdout[k]) # ("error" \in DOMAIN stdout[k])

PayloadKeyOf(method) ==
    CASE method = Str("prompts/list")   -> "prompts"
      [] method = Str("prompts/get")    -> "prompt"
      [] method = Str("tools/guidance") -> "guidance"
      [] method = Str("tools/list")     -> "tools"
      [] OTHER                          -> "error"

\* C7 as amended: every line written has jsonrpc "2.0", an id, and exactly
\* one field besides them: error, or the payload field of the method
\* (prompts, prompt, guidance, tools); no line has a field named result.
C7_PayloadXorError ==
    \A k \in 1..Len(stdout) :
        /\ "jsonrpc" \in DOMAIN stdout[k] /\ stdout[k].jsonrpc = Str("2.0")
        /\ "id" \in DOMAIN stdout[k]
        /\ Cardinality(DOMAIN stdout[k] \ {"jsonrpc", "id"}) = 1
        /\ DOMAIN stdout[k] \subseteq {"jsonrpc", "id", "error"} \cup PayloadKeys
        /\ ~HasError(stdout[k]) =>
              /\ IsRequestObject(served[k])
              /\ PayloadKeyOf(Get(Parsed(served[k]).value, "method", Str("")))
                    \in DOMAIN stdout[k]

C7_Witness ==
    /\ Len(stdout) = 3
    /\ \E i, j, k \in 1..3 :
          /\ "guidance" \in DOMAIN stdout[i]
          /\ "prompt" \in DOMAIN stdout[j]
          /\ IsInternalError(stdout[k])

IsErrorObject(e) ==
    /\ IsDict(e)
    /\ {"code", "message"} \subseteq DOMAIN e.f
    /\ DOMAIN e.f \subseteq {"code", "message", "data"}
    /\ e.f.code.t = "num"
    /\ e.f.message.t = "str"

\* C8 as claimed: every error field, the unknown-method one included, is an
\* object with an integer code and a string message; the unknown-method
\* response names the method and carries the request's id.
C8_ErrorIsObject ==
    \A k \in 1..Len(stdout) :
        /\ HasError(stdout[k]) => IsErrorObject(stdout[k].error)
        /\ UnknownMethodLine(served[k]) =>
              /\ HasError(stdout[k])
              /\ stdout[k].id = Get(Parsed(served[k]).value, "id", Num(1))

\* C8 as amended: the error field of a parse-error or internal-error
\* response is an object with an integer code, a string message and data;
\* the error field of the unknown-method response is the string
\* "Unknown method: <method>", and that response carries the request's id
\* (1 when the request has none).
C8_ErrorShapes ==
    \A k \in 1..Len(stdout) :
        /\ HasError(stdout[k]) =>
              IF UnknownMethodLine(served[k])
              THEN stdout[k].error =
                      Fmt("Unknown method: ", Get(Parsed(served[k]).value, "method", Str("")))
              ELSE /\ IsErrorObject(stdout[k].error)
                   /\ stdout[k].error.f.code \in {Num(-32700), Num(-32603)}
        /\ UnknownMethodLine(served[k]) =>
              /\ HasError(stdout[k])
              /\ stdout[k].id = Get(Parsed(served[k]).value, "id", Num(1))

C8_Witness ==
    /\ Len(stdout) = 3
    /\ \E i, j, k \in 1..3 :
          /\ UnknownMethodLine(served[i]) /\ CarriesId(served[i])
          /\ IsParseError(stdout[j])
          /\ IsInternalError(stdout[k])


------------------------------------------------------------------------------
(* The guidance catalog, queried through tools/guidance.                    *)

IsGuidanceQuery(ln) ==
    /\ IsRequestObject(ln)
    /\ Get(ln.v, "method", Str("")) = Str("tools/guidance")
    /\ IsDict(Get(ln.v, "params", Obj(NoKeys)))

\* params.get("task", "") of a guidance query
TaskOf(ln) == Get(Get(ln.v, "params", Obj(NoKeys)), "task", Str(""))

IsCatalogTask(task) ==
    task.t = "str" /\ DOMAIN task = {"t", "s"} /\ task.s \in GuidanceTasks

\* the default entry, as the contract words it
NoGuidanceEntry ==
    [required_tools |-> <<>>,
     steps |-> <<"No specific guidance available for this task">>,
     prompt |-> Null]

\* C16: for every task kind that is not one of the four catalog tasks (any
\* other string, the empty string of a missing task parameter, and any other
\* value a dict can be keyed by, such as null) get_tool_guidance raises
\* nothing and returns the default entry: no capability, the single step
\* "No specific guidance available for this task", no prompt reference; the
\* protocol answers the query with that entry and no error.
C16_UnknownTaskGetsDefault ==
    \A k \in 1..Handled :
        (IsGuidanceQuery(served[k]) /\ Hashable(TaskOf(served[k]))
                /\ ~IsCatalogTask(TaskOf(served[k])))
            => /\ get_tool_guidance(TaskOf(served[k])) = Return(NoGuidanceEntry)
               /\ k <= Len(stdout)
               /\ ~HasError(stdout[k])
               /\ "guidance" \in DOMAIN stdout[k]
               /\ stdout[k].guidance = NoGuidanceEntry

C16_Witness ==
    \E k \in 1..Handled :
        /\ IsGuidanceQuery(served[k])
        /\ "params" \notin DOMAIN served[k].v.f
        /\ TaskOf(served[k]) = Str("")
        /\ k <= Len(stdout)
        /\ "guidance" \in DOMAIN stdout[k]
        /\ stdout[k].guidance = NoGuidanceEntry

\* the place of step x in steps, 0 when it is not among them
Pos(steps, x) ==
    IF \E i \in 1..Len(steps) : steps[i] = x
    THEN CHOOSE i \in 1..Len(steps) : steps[i] = x
    ELSE 0

Precedes(steps, x, y) == Pos(steps, x) >= 1 /\ Pos(steps, x) < Pos(steps, y)

\* the acquire-before-use order of each catalog entry
AcquiresBeforeUse(task, steps) ==
    CASE task = "analyze_file" ->
            /\ steps[1] = "First, use filesystem tool to read the medical document"
            /\ Precedes(steps, "First, use filesystem tool to read the medical document",
                               "Then analyze the content using medical_processor prompt")
      [] task = "patient_summary" ->
            Precedes(steps, "Use filesystem to access patient records",
                            "Apply patient_summary prompt for formatting")
      [] task = "billing" ->
            Precedes(steps, "First verify the analysis was completed",
                            "Use stripe tool to create billing record")
      [] task = "fetch_guidelines" ->
            steps[1] = "Use fetch tool to retrieve medical guidelines"

\* C17: in every catalog entry the step that acquires or verifies the input
\* comes before the step that uses it (file read before analysis, analysis
\* confirmed before the charge is recorded, retrieval first), and the steps
\* returned over the protocol, and gone through by guided_analysis, are in
\* the catalog's order.
C17_StepsAcquireBeforeUse ==
    /\ \A task \in GuidanceTasks : AcquiresBeforeUse(task, tool_guidance[task].steps)
    /\ \A k \in 1..Handled :
        (IsGuidanceQuery(served[k]) /\ IsCatalogTask(TaskOf(served[k])))
            => /\ k <= Len(stdout)
               /\ "guidance" \in DOMAIN stdout[k]
               /\ stdout[k].guidance.steps = tool_guidance[TaskOf(served[k]).s].steps
               /\ guided_steps(stdout[k]) = tool_guidance[TaskOf(served[k]).s].steps
               /\ AcquiresBeforeUse(TaskOf(served[k]).s, guided_steps(stdout[k]))

C17_Witness ==
    \E k \in 1..Handled :
        /\ IsGuidanceQuery(served[k])
        /\ TaskOf(served[k]) = Str("billing")
        /\ k <= Len(stdout)
        /\ guided_steps(stdout[k])[1] = "First verify the analysis was completed"
        /\ guided_steps(stdout[k])[2] = "Use stripe tool to create billing record"

------------------------------------------------------------------------------
(* Sessions of the HTTP layer running side by side.                         *)

Stored(j) == j \in DOMAIN api.analysis_jobs

\* the stored result is one its own request can produce
OwnResult(j) ==
    LET req    == api.submitted[j]
        result == api.analysis_jobs[j]
    IN  /\ j \in 1..Len(api.submitted)
        /\ result.status \in {"success", "error"}
        /\ result.status = "success"
                => /\ result.customer_id = req.customer_id
                   /\ result.tier = req.type

\* the tasks of the other jobs, with their positions
OtherTasks(tasks, j) == {t \in tasks : t.job_id # j}

\* a step that stores the result of job j leaves every other job as it was
OnlyOwnJobTouched ==
    \A j \in DOMAIN api.analysis_jobs' \ DOMAIN api.analysis_jobs :
        /\ \A i \in DOMAIN api.analysis_jobs :
                i \in DOMAIN api.analysis_jobs'
                    /\ api.analysis_jobs'[i] = api.analysis_jobs[i]
        /\ DOMAIN api.analysis_jobs' = DOMAIN api.analysis_jobs \cup {j}
        /\ OtherTasks(api.tasks', j) = OtherTasks(api.tasks, j)
        /\ api.responses' = api.responses
        /\ api.answers' = api.answers

\* C21: with sessions interleaved in any order, the result stored under a
\* job id is a result of that job's own request (its customer id and tier),
\* and the step by which one session completes or fails changes neither the
\* stored result nor the pending task of any other session.
C21_SessionsIndependent ==
    /\ [](\A j \in DOMAIN api.analysis_jobs : OwnResult(j))
    /\ [][OnlyOwnJobTouched]_vars

\* the second job finished with its own customer while the first is still
\* running
C21_Witness ==
    /\ api.impl = "api_server"
    /\ DOMAIN api.analysis_jobs = {2}
    /\ api.analysis_jobs[2].status = "success"
    /\ api.analysis_jobs[2].customer_id = "cus_2"
    /\ \E t \in api.tasks : t.job_id = 1 /\ t.pc = "running"
    /\ api.submitted[1].customer_id = "cus_1"

------------------------------------------------------------------------------
(* The prompt template store, queried through prompts/get.                  *)

IsPromptQuery(ln) ==
    /\ IsRequestObject(ln)
    /\ Get(ln.v, "method", Str("")) = Str("prompts/get")
    /\ IsDict(Get(ln.v, "params", Obj(NoKeys)))

NameOf(ln)    == Get(Get(ln.v, "params", Obj(NoKeys)), "name", Str(""))
ContextOf(ln) == Get(Get(ln.v, "params", Obj(NoKeys)), "context", Obj(NoKeys))

IsLoadedName(name) ==
    name.t = "str" /\ DOMAIN name = {"t", "s"} /\ name.s \in PromptNames(prompts)

\* the template body with each placeholder whose key the context has
\* replaced by str(value), and every other piece as it is
SubstitutedOnce(body, ctx) ==
    [i \in 1..Len(body) |->
        IF "ph" \in DOMAIN body[i] /\ body[i].ph \in DOMAIN ctx
        THEN Inserted(ctx[body[i].ph])
        ELSE body[i]]

\* C22: for every loaded template and every context, prompts/get returns the
\* body with every {{key}} of a key in the context replaced by str(value) and
\* every other placeholder left verbatim; substituting once more with a
\* context that has none of the remaining keys returns the same text; an
\* unknown name is answered with "No prompt found for: <name>".
C22_SubstitutesContextKeys ==
    \A k \in 1..Handled :
        (IsPromptQuery(served[k]) /\ IsDict(ContextOf(served[k]))
                /\ Hashable(NameOf(served[k])))
            => /\ k <= Len(stdout)
               /\ "prompt" \in DOMAIN stdout[k]
               /\ IF IsLoadedName(NameOf(served[k]))
                  THEN LET body == PromptBody(prompts, NameOf(served[k]).s)
                           ctx  == ContextOf(served[k]).f
                       IN  /\ stdout[k].prompt = Text(SubstitutedOnce(body, ctx))
                           /\ \A key \in {"ward", "room"} :
                                ReplaceKey(stdout[k].prompt.text, key, Str("W"))
                                    = stdout[k].prompt.text
                  ELSE stdout[k].prompt = Fmt("No prompt found for: ", NameOf(served[k]))

------------------------------------------------------------------------------
(* The protocol handler keeps nothing between calls.                        *)

IsListQuery(ln) ==
    IsRequestObject(ln) /\ Get(ln.v, "method", Str("")) = Str("prompts/list")

\* the names a prompts/list response lists, in order
ListedNames(resp) == [i \in 1..Len(resp.prompts) |-> resp.prompts[i].name]

Answered == IF Handled < Len(stdout) THEN Handled ELSE Len(stdout)

\* C23: no sequence of requests, valid or not, changes the prompt store, so
\* every prompts/list response lists exactly the names loaded at startup,
\* once each, and two identical lines of a session get identical responses.
C23_StatelessPerCall ==
    /\ prompts = SampleStore
    /\ \A k \in 1..Answered :
            IsListQuery(served[k])
                => /\ "prompts" \in DOMAIN stdout[k]
                   /\ Len(stdout[k].prompts) = Len(SampleStore)
                   /\ {ListedNames(stdout[k])[i] : i \in 1..Len(SampleStore)}
                        = PromptNames(SampleStore)
    /\ \A i, j \in 1..Answered :
            served[i] = served[j] => stdout[i] = stdout[j]

------------------------------------------------------------------------------
(* The variants of analyze_with_billing compared.                           *)

\* the billed flag of a result, an absent flag counting as not billed
BilledFlag(result) == "billed" \in DOMAIN result /\ result.billed

TierNamed(result) == IF "tier" \in DOMAIN result THEN result.tier ELSE "none"

\* the place of a call among the calls of a run, 0 when it was not made
CallAt(r, name) ==
    IF \E i \in 1..Len(r.calls) : r.calls[i] = name
    THEN CHOOSE i \in 1..Len(r.calls) : r.calls[i] = name
    ELSE 0

BillingCallAt(r) ==
    IF CallAt(r, "create_usage_record") > 0 THEN CallAt(r, "create_usage_record")
    ELSE CallAt(r, "send billing_prompt")

\* where the billing call stands relative to the analysis step
BillingPlace(r) ==
    CASE BillingCallAt(r) = 0 -> "none"
      [] CallAt(r, "send analysis") = 0 -> "alone"
      [] BillingCallAt(r) < CallAt(r, "send analysis") -> "before"
      [] OTHER -> "after"

\* C24: run on the same request with the same collaborator outcomes, any two
\* variants of analyze_with_billing end with the same status, the same billed
\* flag, the same tier and the same number of billing events, recorded on the
\* same side of the analysis step.
C24_VariantsInterchangeable ==
    run.pc = "compared" =>
        \A v, w \in Variants :
            LET a == run.runs[v]
                b == run.runs[w]
            IN  /\ a.pc = b.pc
                /\ a.result.status = b.result.status
                /\ BilledFlag(a.result) = BilledFlag(b.result)
                /\ TierNamed(a.result) = TierNamed(b.result)
                /\ Len(a.events) = Len(b.events)
                /\ BillingPlace(a) = BillingPlace(b)

------------------------------------------------------------------------------
(* Paid analysis (medical_mcp_server.py).  Stripe is the collaborator: the  *)
(* module-level api key is set or not, and PaymentIntent.retrieve either    *)
(* raises a StripeError or returns the intent.  A document is held as the   *)
(* set of the recognised terms that occur in it, which is all that          *)
(* analyze_medical_document reads of it.                                    *)

IntentStatuses ==
    {"requires_payment_method", "requires_confirmation", "requires_action",
     "processing", "requires_capture", "canceled", "succeeded"}

StripeError == [raised |-> "StripeError"]

PaymentIntents ==
    [status : IntentStatuses,
     amount_received : {0, 10, 50},
     currency : {"usd"},
     customer : {"cus_1"},
     metadata : {[x \in {} |-> ""]} \cup
                [analysis_type : TierNames \cup {"adhoc"}]]

confirm_payment(api_key, retrieved) ==
    IF ~api_key THEN [error |-> "Stripe not configured"]
    ELSE IF retrieved = StripeError
         THEN [error |-> "Stripe error", success |-> FALSE]
    ELSE [success |-> TRUE,
          payment_intent_id |-> "pi_1",
          status |-> retrieved.status,
          amount_received |-> retrieved.amount_received,
          currency |-> retrieved.currency,
          customer_id |-> retrieved.customer,
          metadata |-> retrieved.metadata,
          paid |-> (retrieved.status = "succeeded"),
          created |-> "created"]

common_meds == <<"lisinopril", "metformin", "aspirin", "ibuprofen", "synthroid">>
common_conditions == <<"diabetes", "hypertension", "asthma", "copd", "hypothyroidism">>

Title(term) ==
    CASE term = "lisinopril" -> "Lisinopril"
      [] term = "metformin" -> "Metformin"
      [] term = "aspirin" -> "Aspirin"
      [] term = "ibuprofen" -> "Ibuprofen"
      [] term = "synthroid" -> "Synthroid"
      [] term = "diabetes" -> "Diabetes"
      [] term = "hypertension" -> "Hypertension"
      [] term = "asthma" -> "Asthma"
      [] term = "copd" -> "Copd"
      [] term = "hypothyroidism" -> "Hypothyroidism"

RECURSIVE Detected(_, _)
Detected(terms, content) ==
    IF terms = <<>> THEN <<>>
    ELSE (IF Head(terms) \in content THEN <<Title(Head(terms))>> ELSE <<>>)
         \o Detected(Tail(terms), content)

vital_signs(content) ==
    LET found == (IF "bp" \in content \/ "blood pressure" \in content
                  THEN {"blood_pressure"} ELSE {})
                 \cup (IF "hr" \in content \/ "heart rate" \in content
                       THEN {"heart_rate"} ELSE {})
                 \cup (IF "temp" \in content \/ "temperature" \in content
                       THEN {"temperature"} ELSE {})
    IN  [k \in found |-> "Pattern detected"]

extracted_data(content, analysis_type) ==
    LET base == [vital_signs |-> vital_signs(content),
                 medications |-> Detected(common_meds, content),
                 conditions |-> Detected(common_conditions, content)]
    IN  IF analysis_type = "comprehensive"
        THEN [k \in DOMAIN base \cup {"detailed_analysis"} |->
                IF k = "detailed_analysis"
                THEN [risk_factors |-> <<>>, recommendations |-> <<>>,
                      follow_up_required |-> TRUE]
                ELSE base[k]]
        ELSE IF analysis_type = "batch"
        THEN [k \in DOMAIN base \cup {"batch_summary"} |->
                IF k = "batch_summary"
                THEN [documents_processed |-> 1,
                      total_cost |-> BILLING_TIERS[analysis_type].price]
                ELSE base[k]]
        ELSE base

analyze_medical_document(document_content, analysis_type, patient_id) ==
    IF analysis_type \notin TierNames
    THEN [error |-> "Invalid analysis type"]
    ELSE [analysis_type |-> analysis_type,
          billing_info |-> BILLING_TIERS[analysis_type],
          timestamp |-> "now",
          patient_id |-> patient_id,
          extracted_data |-> extracted_data(document_content, analysis_type)]

\* dict.update: the keys of `more` are added to, or replace, those of `d`
Update(d, more) ==
    [k \in DOMAIN d \cup DOMAIN more |-> IF k \in DOMAIN more THEN more[k] ELSE d[k]]

PyGet(d, k, default) == IF k \in DOMAIN d THEN d[k] ELSE default

\* the test of payment_result["paid"] left out
process_paid_analysis_SuccessOnly(api_key, retrieved, document_content, patient_id) ==
    LET payment_result == confirm_payment(api_key, retrieved)
    IN  IF ~PyGet(payment_result, "success", FALSE)
        THEN [calls |-> <<"confirm_payment">>,
              result |-> [error |-> "Payment not confirmed or failed",
                          payment_status |-> payment_result]]
        ELSE LET metadata == PyGet(payment_result, "metadata", [x \in {} |-> ""])
                 analysis_type == PyGet(metadata, "analysis_type", "basic")
                 analysis_result ==
                     analyze_medical_document(document_content, analysis_type, patient_id)
             IN  [calls |-> <<"confirm_payment", "analyze_medical_document">>,
                  result |-> Update(analysis_result,
                      [payment_confirmed |-> TRUE,
                       payment_intent_id |-> "pi_1",
                       amount_paid |->
                           DecToDouble(PyGet(payment_result, "amount_received", 0), 100),
                       currency |-> PyGet(payment_result, "currency", Null),
                       processed_at |-> "now"])]

\* the dict returned, with the tools the call went through, in order
process_paid_analysis(api_key, retrieved, document_content, patient_id) ==
    LET payment_result == confirm_payment(api_key, retrieved)
    IN  IF ~PyGet(payment_result, "success", FALSE) \/ ~PyGet(payment_result, "paid", FALSE)
        THEN [calls |-> <<"confirm_payment">>,
              result |-> [error |-> "Payment not confirmed or failed",
                          payment_status |-> payment_result]]
        ELSE LET metadata == PyGet(payment_result, "metadata", [x \in {} |-> ""])
                 analysis_type == PyGet(metadata, "analysis_type", "basic")
                 analysis_result ==
                     analyze_medical_document(document_content, analysis_type, patient_id)
             IN  [calls |-> <<"confirm_payment", "analyze_medical_document">>,
                  result |-> Update(analysis_result,
                      [payment_confirmed |-> TRUE,
                       payment_intent_id |-> "pi_1",
                       amount_paid |->
                           DecToDouble(PyGet(payment_result, "amount_received", 0), 100),
                       currency |-> PyGet(payment_result, "currency", Null),
                       processed_at |-> "now"])]

Documents == {{}, {"bp", "metformin", "diabetes"}}
PatientIds == {"none", "patient_001"}

PaidInit ==
    /\ bill \in [phase : {"called"},
                 tool : {"process_paid_analysis"},
                 api_key : BOOLEAN,
                 retrieved : {StripeError} \cup PaymentIntents,
                 document_content : Documents,
                 patient_id : PatientIds]
    /\ prompts = SampleStore
    /\ stdin = <<>>
    /\ line = Unbound
    /\ request = Unbound
    /\ stdout = <<>>
    /\ served = <<>>
    /\ mpc = "idle"
    /\ run = NoRun
    /\ api = NoApi

ProcessPaidAnalysisReturns ==
    /\ bill.phase = "called"
    /\ bill.tool = "process_paid_analysis"
    /\ LET out == process_paid_analysis(bill.api_key, bill.retrieved,
                                        bill.document_content, bill.patient_id)
       IN  bill' = [phase |-> "returned", tool |-> bill.tool,
                    api_key |-> bill.api_key,
                    retrieved |-> bill.retrieved,
                    document_content |-> bill.document_content,
                    patient_id |-> bill.patient_id,
                    calls |-> out.calls,
                    result |-> out.result]
    /\ UNCHANGED <<stdin, line, request, stdout, served, mpc, prompts, run, api>>

PaidNext == ProcessPaidAnalysisReturns

SpecPaid == PaidInit /\ [][PaidNext]_vars

PaidReturned == bill.phase = "returned" /\ bill.tool = "process_paid_analysis"

LookupFailed == ~bill.api_key \/ bill.retrieved = StripeError

NotSucceeded == ~LookupFailed /\ bill.retrieved.status # "succeeded"

AnalysisKeys ==
    {"analysis_type", "billing_info", "extracted_data", "timestamp", "patient_id"}

Ran(name) == \E i \in 1..Len(bill.calls) : bill.calls[i] = name

\* C25: when the payment lookup fails or the intent's status is not
\* "succeeded", process_paid_analysis returns an error result, never calls
\* analyze_medical_document, and the result has neither analysis data nor a
\* payment_confirmed flag; the analysis is run only for a succeeded payment.
C25_AnalysisOnlyAfterPayment ==
    PaidReturned =>
        /\ (LookupFailed \/ NotSucceeded) =>
               /\ "error" \in DOMAIN bill.result
               /\ ~Ran("analyze_medical_document")
               /\ DOMAIN bill.result \cap AnalysisKeys = {}
               /\ "payment_confirmed" \notin DOMAIN bill.result
        /\ Ran("analyze_medical_document") =>
               /\ ~LookupFailed
               /\ bill.retrieved.status = "succeeded"
               /\ bill.calls = <<"confirm_payment", "analyze_medical_document">>

C25_Witness ==
    /\ PaidReturned
    /\ NotSucceeded
    /\ bill.retrieved.status = "processing"
    /\ bill.result.error = "Payment not confirmed or failed"
    /\ bill.result.payment_status.success
    /\ ~bill.result.payment_status.paid

------------------------------------------------------------------------------
(* The order of the steps of a session.                                     *)

EndedInSuccess == run.pc = "done" /\ run.result.status = "success"

\* the session consulted guidance, then ran the analysis
GuidedBeforeExecuting ==
    /\ CallAt(run, "send guidance_prompt") > 0
    /\ CallAt(run, "send guidance_prompt") < CallAt(run, "send analysis")

\* the billing call was made, and made after the analysis
ExecutedBeforePriced ==
    /\ CallAt(run, "send analysis") > 0
    /\ BillingCallAt(run) > CallAt(run, "send analysis")

\* C26: a session of medical_agent.py or medical_agent_enhanced.py that ends
\* with status success consulted guidance before it ran the analysis, and
\* made its billing call only after the analysis had been produced.
C26_StepsInOrder ==
    (EndedInSuccess /\ run.variant \in {"medical_agent", "medical_agent_enhanced"}) =>
        GuidedBeforeExecuting /\ ExecutedBeforePriced

------------------------------------------------------------------------------
(* The job store: terminal results.                                         *)

Terminal(result) == result.status \in {"success", "error"}

\* every stored result is still stored, unchanged, after the step
TerminalKept ==
    \A j \in DOMAIN api.analysis_jobs :
        /\ j \in DOMAIN api.analysis_jobs'
        /\ api.analysis_jobs'[j] = api.analysis_jobs[j]

\* a status query answered in the step, for a job whose result is stored,
\* is answered with that result
QueryReturnsStored ==
    Len(api.answers') = Len(api.answers) + 1 =>
        LET answer == api.answers'[Len(api.answers')]
        IN  Stored(answer.job_id) => answer.body = api.analysis_jobs[answer.job_id]

\* C27: every result in the job store is a success or an error result; once
\* stored under a job id it is never replaced or removed by any operation;
\* and every status query made for that id from then on returns that result.
C27_OneTerminalStatus ==
    /\ [](\A j \in DOMAIN api.analysis_jobs : Terminal(api.analysis_jobs[j]))
    /\ [][TerminalKept /\ QueryReturnsStored]_vars
    /\ [](\A i, k \in 1..Len(api.answers) :
            (/\ api.answers[i].job_id = api.answers[k].job_id
             /\ Terminal(api.answers[i].body)
             /\ Terminal(api.answers[k].body))
                => api.answers[i].body = api.answers[k].body)

\* a failed job asked about twice, with the same answer both times
C27_Witness ==
    /\ Len(api.answers) = 2
    /\ api.answers[1].job_id = 1
    /\ api.answers[2].job_id = 1
    /\ Stored(1)
    /\ api.analysis_jobs[1].status = "error"
    /\ api.answers[1].body = api.analysis_jobs[1]
    /\ api.answers[2].body = api.analysis_jobs[1]

------------------------------------------------------------------------------
(* Background jobs run to a terminal result.                                *)

\* request n was answered with status processing and job id n
Processing(n) ==
    /\ n \in 1..Len(api.responses)
    /\ api.responses[n].body.status = "processing"
    /\ api.responses[n].body.job_id = n

\* a status query answered in the step gets the stored result when there is
\* one, and an answer that is neither success nor error when there is none
QueryTracksJob ==
    Len(api.answers') = Len(api.answers) + 1 =>
        LET answer == api.answers'[Len(api.answers')]
        IN  IF Stored(answer.job_id)
            THEN /\ answer.body = api.analysis_jobs[answer.job_id]
                 /\ Terminal(answer.body)
            ELSE ~Terminal(answer.body)

\* C28: with the background tasks scheduled and their analysis call
\* returning or raising, every request answered with status processing and
\* a job id eventually has a success or error entry under that id in
\* analysis_jobs, which then stays; a status query gets a non-terminal answer
\* before the entry exists and the entry itself from then on.
C28_JobsFinish ==
    /\ \A n \in 1..MaxRequests :
            Processing(n) ~> (Stored(n) /\ Terminal(api.analysis_jobs[n]))
    /\ [][TerminalKept /\ QueryTracksJob]_vars

\* a job asked about while queued and again after it finished
C28_Witness ==
    /\ Processing(1)
    /\ Stored(1)
    /\ Len(api.answers) = 2
    /\ api.answers[1] = [job_id |-> 1, body |-> [status |-> "pending", job_id |-> 1]]
    /\ api.answers[2] = [job_id |-> 1, body |-> api.analysis_jobs[1]]

------------------------------------------------------------------------------
(* The billed flag against the billing events recorded.                     *)

\* C29: a run of analyze_with_billing returns billed = True only when a
\* billing event was recorded for the request: when the usage-record call
\* raised or was never made, the result does not say billed.
C29_BilledOnlyIfRecorded ==
    (run.pc = "done" /\ BilledFlag(run.result)) => Len(run.events) >= 1

------------------------------------------------------------------------------
(* The price of a result against the tier it names.                         *)

\* C30: a success result that carries a tier and a price names a registered
\* tier and carries that tier's unit price; a request whose type is not a
\* registered tier gets no success result priced at another tier's rate.
C30_PriceMatchesTier ==
    (/\ run.pc = "done"
     /\ run.result.status = "success"
     /\ {"tier", "price"} \subseteq DOMAIN run.result)
        => /\ run.result.tier \in TierNames
           /\ run.result.price = BILLING_TIERS[run.result.tier].price

==============================================================================
